---- MODULE Spec2Model ----
(***************************************************************************)
(* Model of the Equinix Terraform provider's configuration layer:          *)
(*   - MetalRetryPolicy, the CheckRetry hook of the Metal HTTP clients;    *)
(*   - Config.Load, which validates the configuration, performs the        *)
(*     client-id/secret token exchange and builds the vendor clients;      *)
(*   - the user-agent helpers that write a client's outgoing user agent;   *)
(*   - waitUntilReservationProvisionable, the hardware reservation poller; *)
(*   - the Create, Read, Update and Delete handlers of the                 *)
(*     equinix_metal_project_ssh_key resource;                             *)
(*   - getUpdateRequests and supportedBandwidthsToTerra of the fabric      *)
(*     mapping layer.                                                      *)
(*                                                                         *)
(* Go strings that are only compared with "" are TLA+ strings.  Strings    *)
(* that are formatted, trimmed or matched are sequences of tokens.         *)
(***************************************************************************)
EXTENDS Integers, Sequences, FiniteSets, TLC

VARIABLES
    retryPc,      \* "ready" before MetalRetryPolicy is called, "returned" after
    retryCtx,     \* ctx.Err() of the context handed to the policy
    retryResp,    \* the *http.Response handed to the policy
    retryErr,     \* the error handed to the policy
    retryOut,     \* the policy's return value (bool, error)
    c,            \* the Config structure
    pc,           \* "constructed", "loaded", "failed", "panicked"
    loadErr,      \* the error Load returned
    exchanges,    \* number of client-id/secret token exchanges performed
    exchanged,    \* the outcome of the token exchange, if one was performed
    metalUA,      \* c.Metal.UserAgent: the packngo client's outgoing user agent
    metalgoUA,    \* c.Metalgo.GetConfig().UserAgent: the metal-go client's one
    uaEnv,        \* the TF_APPEND_USER_AGENT environment variable
    goMeta,       \* the provider metadata of the last AddFwModuleToMetalGoUserAgent
    goPrev,       \* the provider metadata of the call before that one
    pollPc,       \* waitUntilReservationProvisionable: "waiting" or "done"
    pollCtx,      \* ctx.Err() of the context handed to the poller
    pollObs,      \* what the status fetches of the poller returned, in order
    pollElapsed,  \* polling intervals elapsed since the poller was called
    pollResult,   \* what the poller returned
    resOp,        \* the handler of the SSH key resource called last, or "none"
    resCtx,       \* ctx.Err() of the context the framework handed to the handler
    resCalls,     \* the vendor API calls the handler issued, in order
    resDiags,     \* resp.Diagnostics of the handler
    resState,     \* what the handler did to resp.State
    concPc,       \* concurrent resource operations: where each one stands
    concWords,    \* the two machine words of the Metalgo UserAgent string field
    concReq,      \* the user agent each operation's request was sent with
    mapPc,        \* a fabric mapping function: "ready" before the call, "returned"
    mapFn,        \* which function is called
    mapArg,       \* its arguments
    mapRet        \* what it returned

retryVars == <<retryPc, retryCtx, retryResp, retryErr, retryOut>>
configVars == <<c, pc, loadErr, exchanges, exchanged, metalUA, metalgoUA, uaEnv,
               goMeta, goPrev>>
pollVars == <<pollPc, pollCtx, pollObs, pollElapsed, pollResult>>
resVars == <<resOp, resCtx, resCalls, resDiags, resState>>
concVars == <<concPc, concWords, concReq>>
mapVars == <<mapPc, mapFn, mapArg, mapRet>>
vars == <<retryVars, configVars, pollVars, resVars, concVars, mapVars>>

\* Longest error message (in tokens) the policy is tried on.
MaxMsgLen == 4

\* The poller's maximum wait, in polling intervals.
MaxWait == 3

(***************************************************************************)
(* Errors.                                                                 *)
(*                                                                         *)
(* An error message is a sequence of tokens:                               *)
(*   "S" the text "stopped after ", "D" one decimal digit,                 *)
(*   "R" the text " redirects",     "X" any other text.                    *)
(***************************************************************************)
MsgTokens == {"S", "D", "R", "X"}

Msgs == UNION {[1..n -> MsgTokens] : n \in 0..MaxMsgLen}

NilError == [type |-> "nil"]

\* errors.New(msg): what net/http returns for the redirect limit, a refused
\* connection, a timeout, ...
ErrorString(msg) == [type |-> "*errors.errorString", msg |-> msg]

\* x509.UnknownAuthorityError, a struct value:
\* "x509: certificate signed by unknown authority".
UnknownAuthorityError ==
    [type |-> "x509.UnknownAuthorityError", msg |-> <<"X">>]

\* *tls.CertificateVerificationError wrapping the x509 error, which is how
\* crypto/tls reports the same failure since Go 1.20:
\* "tls: failed to verify certificate: x509: certificate signed by unknown authority".
CertificateVerificationError ==
    [type |-> "*tls.CertificateVerificationError", msg |-> <<"X", "X">>,
     Err |-> UnknownAuthorityError]

\* x509.HostnameError: a certificate error that is not a trust failure.
HostnameError == [type |-> "x509.HostnameError", msg |-> <<"X">>]

InnerErrors ==
    {ErrorString(m) : m \in Msgs}
        \cup {UnknownAuthorityError, CertificateVerificationError, HostnameError}

\* &url.Error{Op, URL, Err}
UrlError(inner) == [type |-> "*url.Error", Err |-> inner]

\* What http.Client.Do hands to CheckRetry: nil or a *url.Error.
TransportErrors == {NilError} \cup {UrlError(e) : e \in InnerErrors}

\* (*url.Error).Error(): Op + " " + quoted URL + ": " + Err.Error()
UrlErrorMessage(v) == <<"X">> \o v.Err.msg

\* redirectsErrorRe = `stopped after \d+ redirects\z`
redirectsErrorReMatch(s) ==
    \E i \in 1..Len(s) :
        /\ s[i] = "S"
        /\ i + 1 < Len(s)
        /\ \A j \in (i + 1)..(Len(s) - 1) : s[j] = "D"
        /\ s[Len(s)] = "R"

\* v.Err.(x509.UnknownAuthorityError): a type assertion on the dynamic type
isUnknownAuthorityError(e) == e.type = "x509.UnknownAuthorityError"

CtxErrs == {"nil", "context.Canceled", "context.DeadlineExceeded"}

NoResponse == [StatusCode |-> 0]

Responses == {NoResponse} \cup {[StatusCode |-> s] : s \in {200, 404, 500, 503}}

Ret(retry, err) == [retry |-> retry, err |-> err]

\* A plausible bug: the error is classified before the context is looked at.
MetalRetryPolicy_ErrFirst(ctxErr, resp, err) ==
    IF err # NilError
    THEN Ret(TRUE, "nil")
    ELSE IF ctxErr # "nil" THEN Ret(FALSE, ctxErr) ELSE Ret(FALSE, "nil")

\* A plausible bug: transport errors are reported instead of retried.
MetalRetryPolicy_NeverRetry(ctxErr, resp, err) ==
    IF ctxErr # "nil" THEN Ret(FALSE, ctxErr) ELSE Ret(FALSE, "nil")

\* A plausible bug: the redirect-limit check is left out.
MetalRetryPolicy_NoRedirectCheck(ctxErr, resp, err) ==
    IF ctxErr # "nil"
    THEN Ret(FALSE, ctxErr)
    ELSE IF err # NilError
         THEN IF err.type = "*url.Error" /\ isUnknownAuthorityError(err.Err)
              THEN Ret(FALSE, "nil")
              ELSE Ret(TRUE, "nil")
         ELSE Ret(FALSE, "nil")

\* A plausible bug: server errors are retried, as go-retryablehttp's default
\* policy does.
MetalRetryPolicy_Retry5xx(ctxErr, resp, err) ==
    IF ctxErr # "nil"
    THEN Ret(FALSE, ctxErr)
    ELSE IF err # NilError
         THEN IF err.type = "*url.Error"
                 /\ (redirectsErrorReMatch(UrlErrorMessage(err))
                     \/ isUnknownAuthorityError(err.Err))
              THEN Ret(FALSE, "nil")
              ELSE Ret(TRUE, "nil")
         ELSE Ret(resp.StatusCode >= 500, "nil")

MetalRetryPolicy(ctxErr, resp, err) ==
    IF ctxErr # "nil"
    THEN Ret(FALSE, ctxErr)
    ELSE IF err # NilError
         THEN IF err.type = "*url.Error"
                 /\ (redirectsErrorReMatch(UrlErrorMessage(err))
                     \/ isUnknownAuthorityError(err.Err))
              THEN Ret(FALSE, "nil")
              ELSE Ret(TRUE, "nil")
         ELSE Ret(FALSE, "nil")

(***************************************************************************)
(* The retry policy as a state machine: the HTTP client hands the policy   *)
(* a context, a response and an error, and the policy returns.             *)
(***************************************************************************)
NoRet == Ret(FALSE, "none")

CheckRetry ==
    /\ retryPc = "ready"
    /\ retryOut' = MetalRetryPolicy(retryCtx, retryResp, retryErr)
    /\ retryPc' = "returned"
    /\ UNCHANGED <<retryCtx, retryResp, retryErr, configVars, pollVars, resVars, concVars, mapVars>>

(***************************************************************************)
(* User agents.  A user agent is a sequence of non-empty tokens; "SP" is   *)
(* one space.                                                              *)
(***************************************************************************)
Str(s) == IF s = "" THEN <<>> ELSE <<s>>

RECURSIVE TrimLeft(_)
TrimLeft(s) ==
    IF s # <<>> /\ Head(s) = "SP" THEN TrimLeft(Tail(s)) ELSE s

RECURSIVE TrimRight(_)
TrimRight(s) ==
    IF s # <<>> /\ s[Len(s)] = "SP"
    THEN TrimRight(SubSeq(s, 1, Len(s) - 1))
    ELSE s

\* strings.TrimSpace
TrimSpace(s) == TrimRight(TrimLeft(s))

\* terraformUserAgent(version)
terraformUserAgent(version, env) ==
    LET ua == <<"HashiCorp Terraform/">> \o Str(version)
                  \o <<" (+https://www.terraform.io) Terraform Plugin SDK/",
                       "sdk-version">>
        add == TrimSpace(env)
    IN  IF env # <<>> /\ Len(add) > 0 THEN ua \o <<"SP">> \o add ELSE ua

\* (c *Config) fullUserAgent(suffix)
fullUserAgent(cfg, env, suffix) ==
    TrimSpace(terraformUserAgent(cfg.TerraformVersion, env)
                  \o <<"SP", "terraform-provider-equinix/", "provider-version", "SP">>
                  \o suffix)

\* The per-request provider metadata: reading it fails, or yields a module
\* name that may be empty.
ProviderMetas ==
    {[err |-> TRUE, ModuleName |-> ""]}
        \cup {[err |-> FALSE, ModuleName |-> m] : m \in {"", "modA", "modB"}}

\* No AddFwModuleToMetalGoUserAgent call yet.
NoMeta == [err |-> FALSE, ModuleName |-> "none"]

\* A plausible bug: the module name is joined without testing it, and also
\* when the metadata cannot be read.
generateFwModuleUserAgentString_AlwaysJoin(meta, baseUserAgent) ==
    Str(meta.ModuleName) \o <<"SP">> \o baseUserAgent

\* generateFwModuleUserAgentString / generateModuleUserAgentString
generateFwModuleUserAgentString(meta, baseUserAgent) ==
    IF meta.err
    THEN baseUserAgent
    ELSE IF meta.ModuleName # ""
         THEN <<meta.ModuleName, "SP">> \o baseUserAgent
         ELSE baseUserAgent

(***************************************************************************)
(* Config and Config.Load.                                                 *)
(***************************************************************************)
emptyCredentialsError == "emptyCredentialsError"

baseURLError == "'baseURL' cannot be empty"

\* url.Parse fails on the last of these.
BaseURLs == {"", "https://api.equinix.com", "http://[::1"}

urlParseFails(u) == u = "http://[::1"

\* The zero value of Config with the caller's fields filled in.
NewConfig(baseURL, token, clientID, clientSecret, authToken, timeout, tfVersion) ==
    [BaseURL |-> baseURL, AuthToken |-> authToken, ClientID |-> clientID,
     ClientSecret |-> clientSecret, RequestTimeout |-> timeout, Token |-> token,
     Ecx |-> "nil", Ne |-> "nil", Metal |-> "nil", Metalgo |-> "nil",
     ecxUserAgent |-> <<>>, neUserAgent |-> <<>>,
     metalUserAgent |-> <<>>, metalGoUserAgent |-> <<>>,
     TerraformVersion |-> tfVersion, FabricClient |-> "nil",
     FabricAuthToken |-> ""]

Configs ==
    {NewConfig(u, t, i, s, a, rt, v) :
        u \in BaseURLs, t \in {"", "token"}, i \in {"", "client-id"},
        s \in {"", "client-secret"}, a \in {"", "auth-token"},
        rt \in {0, 30}, v \in {"", "1.5.7"}}

UaEnvs == {<<>>, <<"SP">>, <<"extra">>, <<"SP", "extra", "SP">>}

\* What authConfig.TokenSource(ctx, authClient).Token() returns: (tke, err).
NoExchange == [err |-> FALSE, hasToken |-> FALSE, AccessToken |-> ""]

ExchangeOutcomes ==
    {[err |-> TRUE, hasToken |-> FALSE, AccessToken |-> ""],
     [err |-> FALSE, hasToken |-> FALSE, AccessToken |-> ""],
     [err |-> FALSE, hasToken |-> TRUE, AccessToken |-> ""],
     [err |-> FALSE, hasToken |-> TRUE, AccessToken |-> "access-token"]}

\* A plausible bug: the client id and secret are tested with && instead of ||.
validate_PairAnd(cfg) ==
    IF cfg.BaseURL = ""
    THEN baseURLError
    ELSE IF cfg.Token = "" /\ (cfg.ClientID = "" /\ cfg.ClientSecret = "")
            /\ cfg.AuthToken = ""
         THEN emptyCredentialsError
         ELSE "nil"

\* A plausible bug: the credentials are validated before the base URL.
validate_CredentialsFirst(cfg) ==
    IF cfg.Token = "" /\ (cfg.ClientID = "" \/ cfg.ClientSecret = "")
       /\ cfg.AuthToken = ""
    THEN emptyCredentialsError
    ELSE IF cfg.BaseURL = "" THEN baseURLError ELSE "nil"

\* A plausible bug: every vendor's credentials are required.
validate_EveryVendor(cfg) ==
    IF cfg.BaseURL = ""
    THEN baseURLError
    ELSE IF (cfg.Token = "" /\ (cfg.ClientID = "" \/ cfg.ClientSecret = ""))
            \/ cfg.AuthToken = ""
         THEN emptyCredentialsError
         ELSE "nil"

\* Load's two validations.
validate(cfg) ==
    IF cfg.BaseURL = ""
    THEN baseURLError
    ELSE IF cfg.Token = "" /\ (cfg.ClientID = "" \/ cfg.ClientSecret = "")
            /\ cfg.AuthToken = ""
         THEN emptyCredentialsError
         ELSE "nil"

\* A plausible bug: the exchange does not depend on Token being empty.
needsExchange_IgnoreToken(cfg) == cfg.ClientID # "" /\ cfg.ClientSecret # ""

\* Whether Load exchanges the client id and secret for a token.
needsExchange(cfg) ==
    cfg.Token = "" /\ cfg.ClientID # "" /\ cfg.ClientSecret # ""

\* NewMetalClient: the packngo client, or a nil dereference when BaseURL
\* does not parse (url.Parse's error is discarded).
NewMetalClient(cfg, env) ==
    [panic |-> urlParseFails(cfg.BaseURL),
     UserAgent |-> fullUserAgent(cfg, env, <<"packngo/version">>)]

\* NewMetalGoClient: the metal-go client, likewise.
NewMetalGoClient(cfg, env) ==
    [panic |-> urlParseFails(cfg.BaseURL),
     UserAgent |-> fullUserAgent(cfg, env, <<"metal-go/version">>)]

\* Load, given the outcome x the token exchange has if it is performed.
LoadOutcome(cfg, env, x) ==
    LET v == validate(cfg)
        ex == needsExchange(cfg)
        fat1 == IF ex /\ x.hasToken THEN x.AccessToken ELSE cfg.FabricAuthToken
        fat2 == IF fat1 = "" THEN cfg.Token ELSE fat1
        c1 == [cfg EXCEPT !.FabricAuthToken = fat2,
                          !.ecxUserAgent = fullUserAgent(cfg, env, <<"equinix/ecx-go">>),
                          !.neUserAgent = fullUserAgent(cfg, env, <<"equinix/ecx-go">>),
                          !.Ecx = "ecx.RestClient",
                          !.Ne = "ne.RestClient"]
        metal == NewMetalClient(c1, env)
        c2 == [c1 EXCEPT !.metalUserAgent = metal.UserAgent,
                         !.Metal = "packngo.Client"]
        metalgo == NewMetalGoClient(c2, env)
        c3 == [c2 EXCEPT !.metalGoUserAgent = metalgo.UserAgent,
                         !.Metalgo = "metalv1.APIClient",
                         !.FabricClient = "v4.APIClient"]
        none == [c |-> cfg, pc |-> "failed", err |-> v, exchanges |-> 0,
                 exchanged |-> NoExchange, metalUA |-> <<>>, metalgoUA |-> <<>>]
        n == IF ex THEN 1 ELSE 0
        xo == IF ex THEN x ELSE NoExchange
    IN  IF v # "nil"
        THEN none
        ELSE IF ex /\ x.err
        THEN [none EXCEPT !.err = "error when acquiring token",
                          !.exchanges = 1, !.exchanged = x]
        ELSE IF metal.panic
        THEN [c |-> c1, pc |-> "panicked", err |-> "none", exchanges |-> n,
              exchanged |-> xo, metalUA |-> <<>>, metalgoUA |-> <<>>]
        ELSE IF metalgo.panic
        THEN [c |-> c2, pc |-> "panicked", err |-> "none", exchanges |-> n,
              exchanged |-> xo, metalUA |-> metal.UserAgent, metalgoUA |-> <<>>]
        ELSE [c |-> c3, pc |-> "loaded", err |-> "nil", exchanges |-> n,
              exchanged |-> xo, metalUA |-> metal.UserAgent,
              metalgoUA |-> metalgo.UserAgent]

\* (c *Config) Load(ctx)
Load ==
    /\ pc = "constructed"
    /\ \E x \in ExchangeOutcomes :
         LET r == LoadOutcome(c, uaEnv, x)
         IN  /\ c' = r.c
             /\ pc' = r.pc
             /\ loadErr' = r.err
             /\ exchanges' = exchanges + r.exchanges
             /\ exchanged' = r.exchanged
             /\ metalUA' = r.metalUA
             /\ metalgoUA' = r.metalgoUA
    /\ UNCHANGED <<uaEnv, goMeta, goPrev, retryVars, pollVars, resVars, concVars, mapVars>>

\* A plausible bug: the helper also keeps its result as the new base.
AddFwModuleToMetalUserAgent_StoresBase ==
    /\ pc = "loaded"
    /\ \E meta \in ProviderMetas :
         LET ua == generateFwModuleUserAgentString(meta, c.metalUserAgent)
         IN  /\ metalUA' = ua
             /\ c' = [c EXCEPT !.metalUserAgent = ua]
    /\ UNCHANGED <<pc, loadErr, exchanges, exchanged, metalgoUA, uaEnv, goMeta, goPrev,
                   retryVars, pollVars, resVars, concVars, mapVars>>

\* (c *Config) AddFwModuleToMetalUserAgent(ctx, meta)
AddFwModuleToMetalUserAgent ==
    /\ pc = "loaded"
    /\ \E meta \in ProviderMetas :
         metalUA' = generateFwModuleUserAgentString(meta, c.metalUserAgent)
    /\ UNCHANGED <<c, pc, loadErr, exchanges, exchanged, metalgoUA, uaEnv, goMeta, goPrev,
                   retryVars, pollVars, resVars, concVars, mapVars>>

\* A plausible bug: the module name is put in front of the client's current
\* user agent instead of the base stored at Load.
AddFwModuleToMetalGoUserAgent_Accumulate ==
    /\ pc = "loaded"
    /\ \E meta \in ProviderMetas :
         /\ metalgoUA' = generateFwModuleUserAgentString(meta, metalgoUA)
         /\ goMeta' = meta
         /\ goPrev' = goMeta
    /\ UNCHANGED <<c, pc, loadErr, exchanges, exchanged, metalUA, uaEnv, retryVars,
                   pollVars, resVars, concVars, mapVars>>

\* (c *Config) AddFwModuleToMetalGoUserAgent(ctx, meta)
AddFwModuleToMetalGoUserAgent ==
    /\ pc = "loaded"
    /\ \E meta \in ProviderMetas :
         /\ metalgoUA' = generateFwModuleUserAgentString(meta, c.metalGoUserAgent)
         /\ goMeta' = meta
         /\ goPrev' = goMeta
    /\ UNCHANGED <<c, pc, loadErr, exchanges, exchanged, metalUA, uaEnv, retryVars,
                   pollVars, resVars, concVars, mapVars>>

(***************************************************************************)
(* waitUntilReservationProvisionable(ctx, client, reservationId,           *)
(* instanceId, delay, timeout, minTimeout).  The function is driven by     *)
(* Test_waitUntilReservationProvisionable; its four cases fix what each    *)
(* status decides, the design document fixes the tick: the cancellation    *)
(* signal is checked first, then the deadline, then the status is fetched. *)
(***************************************************************************)
reservationId == "reservationId"

instanceId == "instanceId"

\* The device of a fetched reservation: none ("nil"), or its id.
DeviceIds == {"nil", "", "instanceId", "new instance id"}

\* The status fetch failed (the API answered HTTP 500).
FetchError == [err |-> TRUE, provisionable |-> FALSE, device |-> "nil"]

Observations ==
    {FetchError}
        \cup {[err |-> FALSE, provisionable |-> b, device |-> d] :
                 b \in BOOLEAN, d \in DeviceIds}

\* A plausible bug: a reservation attached to any device counts as
\* reprovisioned, the instance's own device included.
refreshState_AnyDevice(o) ==
    IF o.err
    THEN "error"
    ELSE IF o.provisionable
         THEN "provisionable"
         ELSE IF o.device \notin {"nil", ""}
              THEN "reprovisioned"
              ELSE "deprovisioning"

\* A plausible bug: a failed fetch is taken for "not yet provisionable".
refreshState_ErrorIsPending(o) ==
    IF o.err
    THEN "deprovisioning"
    ELSE IF o.provisionable
         THEN "provisionable"
         ELSE IF o.device \notin {"nil", "", instanceId}
              THEN "reprovisioned"
              ELSE "deprovisioning"

\* A plausible bug: a reservation reprovisioned to another instance is
\* taken for still deprovisioning.
refreshState_NoReprovisioned(o) ==
    IF o.err
    THEN "error"
    ELSE IF o.provisionable THEN "provisionable" ELSE "deprovisioning"

\* A plausible bug: the provisionable flag is not read.
refreshState_IgnoreProvisionable(o) ==
    IF o.err
    THEN "error"
    ELSE IF o.device \notin {"nil", "", instanceId}
         THEN "reprovisioned"
         ELSE "deprovisioning"

\* The state one status fetch stands for.
refreshState(o) ==
    IF o.err
    THEN "error"
    ELSE IF o.provisionable
         THEN "provisionable"
         ELSE IF o.device \notin {"nil", "", instanceId}
              THEN "reprovisioned"
              ELSE "deprovisioning"

PollRet(kind, err, id, last) == [kind |-> kind, err |-> err, id |-> id, last |-> last]

NoPollResult == PollRet("none", "none", "", "")

lastState(obs) == IF obs = <<>> THEN "" ELSE refreshState(obs[Len(obs)])

\* A plausible bug: the poller stops one interval before the deadline.
deadlinePassed_Early(elapsed) == elapsed + 1 >= MaxWait

\* The maximum wait has elapsed.
deadlinePassed(elapsed) == elapsed >= MaxWait

\* A plausible bug: the deadline is tested before the cancellation signal.
tickDecision_DeadlineFirst(ctxErr, elapsed) ==
    IF deadlinePassed(elapsed)
    THEN "timeout"
    ELSE IF ctxErr # "nil" THEN "cancelled" ELSE "fetch"

\* What one tick decides before fetching: "cancelled", "timeout" or "fetch".
tickDecision(ctxErr, elapsed) ==
    IF ctxErr # "nil"
    THEN "cancelled"
    ELSE IF deadlinePassed(elapsed) THEN "timeout" ELSE "fetch"

\* One tick of the poller.
PollTick ==
    /\ pollPc = "waiting"
    /\ LET d == tickDecision(pollCtx, pollElapsed)
       IN  \/ /\ d = "cancelled"
              /\ pollResult' = PollRet("cancelled", pollCtx, "", "")
              /\ pollPc' = "done"
              /\ UNCHANGED <<pollObs, pollElapsed>>
           \/ /\ d = "timeout"
              /\ pollResult' = PollRet("timeout", "never reached target state",
                                       reservationId, lastState(pollObs))
              /\ pollPc' = "done"
              /\ UNCHANGED <<pollObs, pollElapsed>>
           \/ /\ d = "fetch"
              /\ \E o \in Observations :
                   /\ pollObs' = Append(pollObs, o)
                   /\ pollElapsed' = pollElapsed + 1
                   /\ LET st == refreshState(o)
                      IN  IF st = "error"
                          THEN /\ pollResult' = PollRet("error", "fetch failed", "", st)
                               /\ pollPc' = "done"
                          ELSE IF st \in {"provisionable", "reprovisioned"}
                          THEN /\ pollResult' = PollRet("success", "nil", "", st)
                               /\ pollPc' = "done"
                          ELSE UNCHANGED <<pollResult, pollPc>>
    /\ UNCHANGED <<pollCtx, retryVars, configVars, resVars, concVars, mapVars>>

\* The caller cancels the context while the poller waits.
PollCancel ==
    /\ pollPc = "waiting"
    /\ pollCtx = "nil"
    /\ pollCtx' = "context.Canceled"
    /\ UNCHANGED <<pollPc, pollObs, pollElapsed, pollResult, retryVars, configVars, resVars, concVars, mapVars>>

PollIdle ==
    /\ pollPc = "idle"
    /\ pollCtx = "nil"
    /\ pollObs = <<>>
    /\ pollElapsed = 0
    /\ pollResult = NoPollResult

(***************************************************************************)
(* The equinix_metal_project_ssh_key resource: its Create, Read, Update    *)
(* and Delete handlers.  A handler runs from call to return in one step;   *)
(* the variables res* hold the request's context and the response the      *)
(* handler filled in.                                                      *)
(***************************************************************************)
\* The context the handlers pass to the vendor SDK.
Background == "context.Background()"

\* ctx.Err() of the context a call was issued under, given that of the
\* handler's own context: context.Background() is never cancelled.
callCtxErr(callCtx, ctxErr) == IF callCtx = Background THEN "nil" ELSE ctxErr

\* What Execute() returns when its context is cancelled: the HTTP call is
\* abandoned and the context's error comes back.
Aborted == [err |-> TRUE, status |-> 0, cause |-> "context"]

\* What Execute() returns otherwise: a success, an error response of the
\* API, or a transport error without a response.
ApiOutcomes ==
    {[err |-> FALSE, status |-> 200, cause |-> "nil"],
     [err |-> TRUE, status |-> 403, cause |-> "http"],
     [err |-> TRUE, status |-> 404, cause |-> "http"],
     [err |-> TRUE, status |-> 500, cause |-> "http"],
     [err |-> TRUE, status |-> 0, cause |-> "transport"]}

Execute(callCtx, ctxErr) ==
    IF callCtxErr(callCtx, ctxErr) # "nil" THEN {Aborted} ELSE ApiOutcomes

\* equinix_errors.IsNotFound(err)
IsNotFound(out) == out.err /\ out.status = 404

HttpForbidden == 403

HttpNotFound == 404

\* equinix_errors.IgnoreHttpResponseErrors(ignore...)(resp, err) != nil
IgnoreHttpResponseErrors(ignore, out) == out.err /\ out.status \notin ignore

\* state.ID.ValueString() / plan.ID.ValueString(): the ID of the key the
\* request is about.
keyId == "ssh-key-id"

\* A diagnostic whose text names a key ID.
DiagFor(severity, summary, id) ==
    [severity |-> severity, summary |-> summary, id |-> id]

\* A diagnostic whose text names no key.
Diag(severity, summary) == DiagFor(severity, summary, "")

\* diag.Diagnostics.HasError()
HasError(diags) == \E i \in 1..Len(diags) : diags[i].severity = "error"

\* What a handler leaves behind: whether it issued its API call, the
\* diagnostics and what it did to resp.State.
Response(called, diags, state) ==
    [called |-> called, diags |-> diags, state |-> state]

\* resp.Diagnostics.Append(resp.State.Set(ctx, &model)...) at the end of
\* Create, Read and Update.
StateSet(diags, setOk) ==
    IF setOk
    THEN Response(TRUE, diags, "set")
    ELSE Response(TRUE, diags \o <<Diag("error", "State.Set")>>, "untouched")

\* A plausible bug: the return after the failed API call is missing.
CreateResponse_NoReturn(planOk, out, parseOk, setOk) ==
    IF ~planOk
    THEN Response(FALSE, <<Diag("error", "Plan.Get")>>, "untouched")
    ELSE LET d == IF out.err
                  THEN <<Diag("error", "Failed to create Project SSH Key")>>
                  ELSE <<>>
         IN  StateSet(d, setOk)

\* The body of Create after AddFwModuleToMetalGoUserAgent.
CreateResponse(planOk, out, parseOk, setOk) ==
    IF ~planOk
    THEN Response(FALSE, <<Diag("error", "Plan.Get")>>, "untouched")
    ELSE IF out.err
    THEN Response(TRUE, <<Diag("error", "Failed to create Project SSH Key")>>,
                  "untouched")
    ELSE IF ~parseOk
    THEN Response(TRUE, <<Diag("error", "parse")>>, "untouched")
    ELSE StateSet(<<>>, setOk)

\* A plausible bug: a key that is not found is reported like any other
\* failure.
ReadResponse_NotFoundIsError(stateOk, out, parseOk, setOk) ==
    IF ~stateOk
    THEN Response(FALSE, <<Diag("error", "State.Get")>>, "untouched")
    ELSE IF out.err
    THEN Response(TRUE, <<DiagFor("error", "Failed to get Project SSHKey", keyId)>>,
                  "untouched")
    ELSE IF ~parseOk
    THEN Response(TRUE, <<Diag("error", "parse")>>, "untouched")
    ELSE StateSet(<<>>, setOk)

\* A plausible bug: the diagnostics are not tested before the state is set.
ReadResponse_NoHasErrorTest(stateOk, out, parseOk, setOk) ==
    IF ~stateOk
    THEN Response(FALSE, <<Diag("error", "State.Get")>>, "untouched")
    ELSE IF IsNotFound(out)
    THEN Response(TRUE,
                  <<DiagFor("warning",
                         "Equinix Metal Project SSHKey not found during refresh",
                         keyId)>>,
                  "removed")
    ELSE LET d1 == IF out.err
                   THEN <<DiagFor("error", "Failed to get Project SSHKey", keyId)>>
                   ELSE <<>>
             d2 == IF parseOk THEN d1 ELSE d1 \o <<Diag("error", "parse")>>
         IN  StateSet(d2, setOk)

\* The body of Read after AddFwModuleToMetalGoUserAgent.  After a failure
\* other than not-found the handler does not return: it goes on to
\* state.parse(key) and returns at the HasError test that follows.
ReadResponse(stateOk, out, parseOk, setOk) ==
    IF ~stateOk
    THEN Response(FALSE, <<Diag("error", "State.Get")>>, "untouched")
    ELSE IF IsNotFound(out)
    THEN Response(TRUE,
                  <<DiagFor("warning",
                         "Equinix Metal Project SSHKey not found during refresh",
                         keyId)>>,
                  "removed")
    ELSE LET d1 == IF out.err
                   THEN <<DiagFor("error", "Failed to get Project SSHKey", keyId)>>
                   ELSE <<>>
             d2 == IF parseOk THEN d1 ELSE d1 \o <<Diag("error", "parse")>>
         IN  IF HasError(d2)
             THEN Response(TRUE, d2, "untouched")
             ELSE StateSet(d2, setOk)

\* The body of Update after AddFwModuleToMetalGoUserAgent.
UpdateResponse(planOk, stateOk, out, parseOk, setOk) ==
    LET g1 == IF planOk THEN <<>> ELSE <<Diag("error", "Plan.Get")>>
        g2 == IF stateOk THEN g1 ELSE g1 \o <<Diag("error", "State.Get")>>
    IN  IF HasError(g2)
        THEN Response(FALSE, g2, "untouched")
        ELSE IF out.err
        THEN Response(TRUE, <<DiagFor("error", "Error updating resource", keyId)>>,
                      "untouched")
        ELSE IF ~parseOk
        THEN Response(TRUE, <<Diag("error", "parse")>>, "untouched")
        ELSE StateSet(<<>>, setOk)

\* A plausible bug: every failure of the delete call is reported.
DeleteResponse_NoIgnore(stateOk, out) ==
    IF ~stateOk
    THEN Response(FALSE, <<Diag("error", "State.Get")>>, "untouched")
    ELSE IF out.err
    THEN Response(TRUE, <<DiagFor("error", "Failed to delete Project SSHKey", keyId)>>,
                  "untouched")
    ELSE Response(TRUE, <<>>, "untouched")

\* The body of Delete after AddFwModuleToMetalGoUserAgent.
DeleteResponse(stateOk, out) ==
    IF ~stateOk
    THEN Response(FALSE, <<Diag("error", "State.Get")>>, "untouched")
    ELSE IF IgnoreHttpResponseErrors({HttpForbidden, HttpNotFound}, out)
    THEN Response(TRUE, <<DiagFor("error", "Failed to delete Project SSHKey", keyId)>>,
                  "untouched")
    ELSE Response(TRUE, <<>>, "untouched")

\* One handler call: r.Meta.AddFwModuleToMetalGoUserAgent(ctx,
\* req.ProviderMeta), then the body, whose API call (if issued) went out
\* under callCtx with the user agent just written.
Handled(op, api, callCtx, meta, ctxErr, out, r) ==
    LET ua == generateFwModuleUserAgentString(meta, c.metalGoUserAgent)
    IN  /\ metalgoUA' = ua
        /\ goMeta' = meta
        /\ goPrev' = goMeta
        /\ resOp' = op
        /\ resCtx' = ctxErr
        /\ resCalls' = IF r.called
                       THEN <<[api |-> api, ctx |-> callCtx, userAgent |-> ua,
                               out |-> out]>>
                       ELSE <<>>
        /\ resDiags' = r.diags
        /\ resState' = r.state
        /\ UNCHANGED <<c, pc, loadErr, exchanges, exchanged, metalUA, uaEnv,
                       retryVars, pollVars, concVars, mapVars>>

\* ctx.Err() of the request context while the handler runs: live, or
\* cancelled by the framework.
ReqCtxErrs == {"nil", "context.Canceled"}

\* The ways the body of Create can run: what Execute() returned and the
\* response the handler left.
CreateRuns(ctxErr) ==
    {[out |-> out, resp |-> CreateResponse(planOk, out, parseOk, setOk)] :
        planOk \in BOOLEAN, parseOk \in BOOLEAN, setOk \in BOOLEAN,
        out \in Execute(Background, ctxErr)}

\* (r *Resource) Create(ctx, req, resp)
Create ==
    /\ pc = "loaded"
    /\ \E meta \in ProviderMetas, ctxErr \in ReqCtxErrs :
         \E run \in CreateRuns(ctxErr) :
            Handled("Create", "CreateProjectSSHKey", Background, meta, ctxErr,
                    run.out, run.resp)

ReadRuns(ctxErr) ==
    {[out |-> out, resp |-> ReadResponse(stateOk, out, parseOk, setOk)] :
        stateOk \in BOOLEAN, parseOk \in BOOLEAN, setOk \in BOOLEAN,
        out \in Execute(Background, ctxErr)}

\* (r *Resource) Read(ctx, req, resp)
Read ==
    /\ pc = "loaded"
    /\ \E meta \in ProviderMetas, ctxErr \in ReqCtxErrs :
         \E run \in ReadRuns(ctxErr) :
            Handled("Read", "FindSSHKeyById", Background, meta, ctxErr,
                    run.out, run.resp)

UpdateRuns(ctxErr) ==
    {[out |-> out, resp |-> UpdateResponse(planOk, stateOk, out, parseOk, setOk)] :
        planOk \in BOOLEAN, stateOk \in BOOLEAN, parseOk \in BOOLEAN,
        setOk \in BOOLEAN, out \in Execute(Background, ctxErr)}

\* (r *Resource) Update(ctx, req, resp)
Update ==
    /\ pc = "loaded"
    /\ \E meta \in ProviderMetas, ctxErr \in ReqCtxErrs :
         \E run \in UpdateRuns(ctxErr) :
            Handled("Update", "UpdateSSHKey", Background, meta, ctxErr,
                    run.out, run.resp)

DeleteRuns(ctxErr) ==
    {[out |-> out, resp |-> DeleteResponse(stateOk, out)] :
        stateOk \in BOOLEAN, out \in Execute(Background, ctxErr)}

\* (r *Resource) Delete(ctx, req, resp)
Delete ==
    /\ pc = "loaded"
    /\ \E meta \in ProviderMetas, ctxErr \in ReqCtxErrs :
         \E run \in DeleteRuns(ctxErr) :
            Handled("Delete", "DeleteSSHKey", Background, meta, ctxErr,
                    run.out, run.resp)

ResIdle ==
    /\ resOp = "none"
    /\ resCtx = "nil"
    /\ resCalls = <<>>
    /\ resDiags = <<>>
    /\ resState = "untouched"

(***************************************************************************)
(* Resource operations of two modules running concurrently on one Config.  *)
(* Each handler first stores its module's user agent into the UserAgent    *)
(* field of the one metal-go client (AddFwModuleToMetalGoUserAgent), then  *)
(* issues its API call, which reads the field when the request is built.   *)
(* Nothing synchronises the two: the store of a Go string is two word      *)
(* stores (data pointer, length), and a read that falls between them, or   *)
(* between the stores of two writers, sees a pointer and a length that do  *)
(* not belong together.                                                    *)
(***************************************************************************)
Ops == {"op1", "op2"}

\* The provider metadata of the module each operation belongs to.
OpMeta(o) ==
    IF o = "op1"
    THEN [err |-> FALSE, ModuleName |-> "modA"]
    ELSE [err |-> FALSE, ModuleName |-> "modB"]

\* The string an operation stores into the field.
OpUserAgent(o) == generateFwModuleUserAgentString(OpMeta(o), c.metalGoUserAgent)

Words(str) == [ptr |-> str, len |-> Len(str)]

\* The string a pointer and a length stand for.  A length beyond the data
\* the pointer leads to reads whatever lies behind it.
StringOf(w) ==
    IF w.len <= Len(w.ptr)
    THEN SubSeq(w.ptr, 1, w.len)
    ELSE w.ptr \o [i \in 1..(w.len - Len(w.ptr)) |-> "?"]

NoRequest == <<"no request">>

\* A fix the code's TODO proposes: the header is set query by query.
requestUserAgent_PerRequest(shared, own) == own

\* The user agent a request is sent with: the client's field as it is when
\* the request is built.
requestUserAgent(shared, own) == shared

\* One of the two word stores of c.Metalgo.GetConfig().UserAgent = ...;
\* the order of the two is the compiler's.
ConcStore(o) ==
    /\ pc = "loaded"
    /\ \/ /\ concPc[o] = "idle"
          /\ \E w \in {"ptr", "len"} :
                /\ concWords' = [concWords EXCEPT ![w] = Words(OpUserAgent(o))[w]]
                /\ concPc' = [concPc EXCEPT ![o] = "stored " \o w]
       \/ /\ concPc[o] = "stored ptr"
          /\ concWords' = [concWords EXCEPT !.len = Len(OpUserAgent(o))]
          /\ concPc' = [concPc EXCEPT ![o] = "ready"]
       \/ /\ concPc[o] = "stored len"
          /\ concWords' = [concWords EXCEPT !.ptr = OpUserAgent(o)]
          /\ concPc' = [concPc EXCEPT ![o] = "ready"]
    /\ metalgoUA' = StringOf(concWords')
    /\ UNCHANGED <<c, pc, loadErr, exchanges, exchanged, metalUA, uaEnv, goMeta, goPrev,
                   concReq, retryVars, pollVars, resVars, mapVars>>

\* The operation's API call: Execute() builds the request from the client's
\* configuration.
ConcSend(o) ==
    /\ concPc[o] = "ready"
    /\ concReq' = [concReq EXCEPT
                      ![o] = requestUserAgent(StringOf(concWords), OpUserAgent(o))]
    /\ concPc' = [concPc EXCEPT ![o] = "sent"]
    /\ UNCHANGED <<concWords, configVars, retryVars, pollVars, resVars, mapVars>>

\* The handler returns; the framework may call the module's next operation.
ConcReturn(o) ==
    /\ concPc[o] = "sent"
    /\ concPc' = [concPc EXCEPT ![o] = "idle"]
    /\ concReq' = [concReq EXCEPT ![o] = NoRequest]
    /\ UNCHANGED <<concWords, configVars, retryVars, pollVars, resVars, mapVars>>

ConcIdle ==
    /\ concPc = [o \in Ops |-> "idle"]
    /\ concWords = Words(<<>>)
    /\ concReq = [o \in Ops |-> NoRequest]

(***************************************************************************)
(* The fabric mapping layer: getUpdateRequests and                         *)
(* supportedBandwidthsToTerra.                                             *)
(***************************************************************************)
MaxBandwidths == 3

\* Values of an []int32 element.
Bandwidths == {50, 1000}

RECURSIVE SeqsUpTo(_, _)
SeqsUpTo(S, n) ==
    IF n = 0
    THEN {<<>>}
    ELSE LET shorter == SeqsUpTo(S, n - 1)
         IN  shorter \cup {Append(q, x) : q \in shorter, x \in S}

\* A *[]int32: nil, or a pointer to a slice.
NilSlice == [isNil |-> TRUE, elems |-> <<>>]

BandwidthLists ==
    {NilSlice} \cup {[isNil |-> FALSE, elems |-> q] : q \in SeqsUpTo(Bandwidths, MaxBandwidths)}

\* make([]interface{}, n): a slice of n nil interface values.
Make(n) == [i \in 1..n |-> "nil"]

\* int(bandwidth): the widening of an int32 keeps the value.
IntOf(bandwidth) == bandwidth

RECURSIVE appendAll(_, _)
\* The range loop: each element is appended to the slice.
appendAll(slice, rest) ==
    IF rest = <<>>
    THEN slice
    ELSE appendAll(Append(slice, IntOf(Head(rest))), Tail(rest))

\* supportedBandwidthsToTerra(supportedBandwidths): the slice is made with
\* len(*supportedBandwidths) elements and the values are appended after
\* them.
supportedBandwidthsToTerra(supportedBandwidths) ==
    IF supportedBandwidths.isNil
    THEN NilSlice
    ELSE [isNil |-> FALSE,
          elems |-> appendAll(Make(Len(supportedBandwidths.elems)),
                              supportedBandwidths.elems)]

\* conn.Operation: nil, an operation without provider status, or one with.
Operations ==
    {[isNil |-> TRUE, ProviderStatus |-> "nil"]}
        \cup {[isNil |-> FALSE, ProviderStatus |-> st] :
                 st \in {"nil", "PENDING_APPROVAL", "AVAILABLE"}}

\* The arguments of getUpdateRequests: the connection, the name and the
\* bandwidth of the resource data, and what
\* additionalInfoContainsAWSSecrets found in its additional_info.
UpdateArgs ==
    [Name : {"conn", "renamed"}, Bandwidth : Bandwidths, Operation : Operations,
     name : {"conn", "renamed"}, bandwidth : Bandwidths,
     hasAWSSecrets : BOOLEAN]

ChangeOp(op, path, value) == [Op |-> op, Path |-> path, Value |-> value]

\* *conn.Operation.ProviderStatus panics on a nil pointer.
derefPanics(operation) == operation.isNil \/ operation.ProviderStatus = "nil"

\* getUpdateRequests(conn, d)
getUpdateRequests(a) ==
    LET ops1 == IF a.Name # a.name
                THEN <<<<ChangeOp("replace", "/name", a.name)>>>>
                ELSE <<>>
        ops2 == IF a.Bandwidth # a.bandwidth
                THEN Append(ops1, <<ChangeOp("replace", "/bandwidth", a.bandwidth)>>)
                ELSE ops1
        ops3 == IF a.Operation.ProviderStatus = "PENDING_APPROVAL" /\ a.hasAWSSecrets
                THEN Append(ops2, <<ChangeOp("add", "", "additionalInfo")>>)
                ELSE ops2
    IN  IF derefPanics(a.Operation)
        THEN [panic |-> TRUE, err |-> "none", changeOps |-> <<>>]
        ELSE IF Len(ops3) = 0
        THEN [panic |-> FALSE, err |-> "nothing to update for the connection",
              changeOps |-> ops3]
        ELSE [panic |-> FALSE, err |-> "nil", changeOps |-> ops3]

NoMapRet == "none"

\* A call of getUpdateRequests.
CallGetUpdateRequests ==
    /\ mapPc = "ready"
    /\ mapFn = "getUpdateRequests"
    /\ mapRet' = getUpdateRequests(mapArg)
    /\ mapPc' = "returned"
    /\ UNCHANGED <<mapFn, mapArg, retryVars, configVars, pollVars, resVars, concVars>>

\* A call of supportedBandwidthsToTerra.
CallSupportedBandwidthsToTerra ==
    /\ mapPc = "ready"
    /\ mapFn = "supportedBandwidthsToTerra"
    /\ mapRet' = supportedBandwidthsToTerra(mapArg)
    /\ mapPc' = "returned"
    /\ UNCHANGED <<mapFn, mapArg, retryVars, configVars, pollVars, resVars, concVars>>

MapIdle ==
    /\ mapPc = "idle"
    /\ mapFn = "none"
    /\ mapArg = "none"
    /\ mapRet = NoMapRet

(***************************************************************************)
(* Specifications.                                                         *)
(***************************************************************************)
RetryIdle ==
    /\ retryPc = "idle"
    /\ retryCtx = "nil"
    /\ retryResp = NoResponse
    /\ retryErr = NilError
    /\ retryOut = NoRet

ConfigIdle ==
    /\ c = NewConfig("", "", "", "", "", 0, "")
    /\ pc = "idle"
    /\ loadErr = "none"
    /\ exchanges = 0
    /\ exchanged = NoExchange
    /\ metalUA = <<>>
    /\ metalgoUA = <<>>
    /\ uaEnv = <<>>
    /\ goMeta = NoMeta
    /\ goPrev = NoMeta

\* A Config as its caller constructs it, before Load.
Init ==
    /\ c \in Configs
    /\ uaEnv \in UaEnvs
    /\ pc = "constructed"
    /\ loadErr = "none"
    /\ exchanges = 0
    /\ exchanged = NoExchange
    /\ metalUA = <<>>
    /\ metalgoUA = <<>>
    /\ goMeta = NoMeta
    /\ goPrev = NoMeta
    /\ RetryIdle
    /\ PollIdle
    /\ ResIdle
    /\ MapIdle
    /\ ConcIdle

Next ==
    \/ Load
    \/ AddFwModuleToMetalUserAgent
    \/ AddFwModuleToMetalGoUserAgent

Spec == Init /\ [][Next]_vars

\* One call of the retry policy on any context, response and transport error.
InitRetry ==
    /\ retryPc = "ready"
    /\ retryCtx \in CtxErrs
    /\ retryResp \in Responses
    /\ retryErr \in TransportErrors
    /\ retryOut = NoRet
    /\ ConfigIdle
    /\ PollIdle
    /\ ResIdle
    /\ MapIdle
    /\ ConcIdle

NextRetry == CheckRetry

SpecRetry == InitRetry /\ [][NextRetry]_vars

\* One call of the poller; the loop runs as long as it can (the poller sleeps
\* between ticks and then ticks again), the caller may cancel at any time.
InitPoll ==
    /\ pollPc = "waiting"
    /\ pollCtx = "nil"
    /\ pollObs = <<>>
    /\ pollElapsed = 0
    /\ pollResult = NoPollResult
    /\ RetryIdle
    /\ ConfigIdle
    /\ ResIdle
    /\ MapIdle
    /\ ConcIdle

NextPoll == PollTick \/ PollCancel

SpecPoll == InitPoll /\ [][NextPoll]_vars /\ WF_vars(PollTick)

\* The configurations the resource handlers are run on: a base URL and a
\* token, as the provider's tests build their Config.
ResConfigs ==
    {NewConfig("https://api.equinix.com", "token", "", "", "", 0, "1.5.7")}

\* The provider loads its Config, then the framework calls the handlers of
\* the resource, in any order and any number of times.
InitRes ==
    /\ c \in ResConfigs
    /\ uaEnv \in {<<>>, <<"extra">>}
    /\ pc = "constructed"
    /\ loadErr = "none"
    /\ exchanges = 0
    /\ exchanged = NoExchange
    /\ metalUA = <<>>
    /\ metalgoUA = <<>>
    /\ goMeta = NoMeta
    /\ goPrev = NoMeta
    /\ RetryIdle
    /\ PollIdle
    /\ ResIdle
    /\ MapIdle
    /\ ConcIdle

NextRes == Load \/ Create \/ Read \/ Update \/ Delete

SpecRes == InitRes /\ [][NextRes]_vars

\* A loaded Config on which the operations of two modules run concurrently.
InitConc ==
    /\ \E cfg \in ResConfigs, env \in UaEnvs :
          LET r == LoadOutcome(cfg, env, NoExchange)
          IN  /\ c = r.c
              /\ pc = r.pc
              /\ loadErr = r.err
              /\ exchanges = r.exchanges
              /\ exchanged = r.exchanged
              /\ metalUA = r.metalUA
              /\ metalgoUA = r.metalgoUA
              /\ uaEnv = env
              /\ concWords = Words(r.metalgoUA)
    /\ goMeta = NoMeta
    /\ goPrev = NoMeta
    /\ concPc = [o \in Ops |-> "idle"]
    /\ concReq = [o \in Ops |-> NoRequest]
    /\ RetryIdle
    /\ PollIdle
    /\ ResIdle
    /\ MapIdle

NextConc == \E o \in Ops : ConcStore(o) \/ ConcSend(o) \/ ConcReturn(o)

SpecConc == InitConc /\ [][NextConc]_vars

\* One call of a mapping function on any argument.
InitMap ==
    /\ mapPc = "ready"
    /\ \/ mapFn = "getUpdateRequests" /\ mapArg \in UpdateArgs
       \/ mapFn = "supportedBandwidthsToTerra" /\ mapArg \in BandwidthLists
    /\ mapRet = NoMapRet
    /\ RetryIdle
    /\ ConfigIdle
    /\ PollIdle
    /\ ResIdle
    /\ ConcIdle

NextMap == CallGetUpdateRequests \/ CallSupportedBandwidthsToTerra

SpecMap == InitMap /\ [][NextMap]_vars

(***************************************************************************)
(* Claims about MetalRetryPolicy, checked under SpecRetry.                 *)
(***************************************************************************)
\* The error's message ends in "stopped after N redirects", N a number of
\* one or more digits.
RedirectLimitError(e) ==
    /\ e.type = "*url.Error"
    /\ LET m == e.Err.msg
           n == Len(m)
       IN  /\ n >= 3
           /\ m[n] = "R"
           /\ \E k \in 1..(n - 2) :
                 /\ m[n - k - 1] = "S"
                 /\ \A j \in (n - k)..(n - 1) : m[j] = "D"

\* The error is, or wraps, "certificate signed by unknown authority".
CertTrustFailure(e) ==
    /\ e.type = "*url.Error"
    /\ \/ e.Err = UnknownAuthorityError
       \/ e.Err = CertificateVerificationError

Returned == retryPc = "returned"

\* C1: with a cancelled or expired context the policy returns
\* (false, ctx.Err()) whatever the response and the error are.
C1_ContextFirst ==
    (Returned /\ retryCtx # "nil") => retryOut = Ret(FALSE, retryCtx)

C1_Witness ==
    /\ Returned
    /\ retryCtx = "context.DeadlineExceeded"
    /\ retryErr = UrlError(ErrorString(<<"X">>))
    /\ retryResp = NoResponse
    /\ retryOut = Ret(FALSE, "context.DeadlineExceeded")

\* C2: with a live context, every non-nil transport error that is neither a
\* redirect-limit error nor a certificate-trust failure is retried:
\* (true, nil), whatever the response is.
C2_OtherErrorsRetried ==
    (/\ Returned
     /\ retryCtx = "nil"
     /\ retryErr # NilError
     /\ ~RedirectLimitError(retryErr)
     /\ ~CertTrustFailure(retryErr))
        => retryOut = Ret(TRUE, "nil")

C2_Witness ==
    /\ Returned
    /\ retryCtx = "nil"
    /\ retryErr = UrlError(ErrorString(<<"S", "D", "R", "X">>))
    /\ retryResp = [StatusCode |-> 503]
    /\ retryOut = Ret(TRUE, "nil")

\* C3: with a live context, a transport error whose message ends in
\* "stopped after N redirects" is not retried: (false, nil).
C3_RedirectLimitNotRetried ==
    (Returned /\ retryCtx = "nil" /\ RedirectLimitError(retryErr))
        => retryOut = Ret(FALSE, "nil")

C3_Witness ==
    /\ Returned
    /\ retryCtx = "nil"
    /\ retryErr = UrlError(ErrorString(<<"X", "S", "D", "R">>))
    /\ retryOut = Ret(FALSE, "nil")

\* C4: with a live context, every transport error that indicates a
\* certificate-trust failure is not retried: (false, nil), however the
\* failure reaches the policy.
C4_CertTrustNotRetried ==
    (Returned /\ retryCtx = "nil" /\ CertTrustFailure(retryErr))
        => retryOut = Ret(FALSE, "nil")

\* C5: with a live context and a nil error the policy returns (false, nil)
\* for every response, a 5xx response included.
C5_ResponsesNotRetried ==
    (Returned /\ retryCtx = "nil" /\ retryErr = NilError)
        => retryOut = Ret(FALSE, "nil")

C5_Witness ==
    /\ Returned
    /\ retryCtx = "nil"
    /\ retryErr = NilError
    /\ retryResp = [StatusCode |-> 500]
    /\ retryOut = Ret(FALSE, "nil")

(***************************************************************************)
(* Claims about Config.Load, checked under Spec.                           *)
(***************************************************************************)
LoadRan == pc # "constructed"

NoHandleAssigned ==
    /\ c.Ecx = "nil"
    /\ c.Ne = "nil"
    /\ c.Metal = "nil"
    /\ c.Metalgo = "nil"
    /\ c.FabricClient = "nil"

EveryHandleAssigned ==
    /\ c.Ecx # "nil"
    /\ c.Ne # "nil"
    /\ c.Metal # "nil"
    /\ c.Metalgo # "nil"
    /\ c.FabricClient # "nil"

PairComplete == c.ClientID # "" /\ c.ClientSecret # ""

\* C6: a non-empty BaseURL, no Token, no AuthToken and no complete
\* client-id/secret pair: Load returns the empty-credentials error and
\* assigns no client handle.
C6_EmptyCredentials ==
    (/\ LoadRan
     /\ c.BaseURL # ""
     /\ c.Token = ""
     /\ c.AuthToken = ""
     /\ ~PairComplete)
        => /\ pc = "failed"
           /\ loadErr = emptyCredentialsError
           /\ NoHandleAssigned

C6_Witness ==
    /\ pc = "failed"
    /\ c.BaseURL # ""
    /\ c.Token = ""
    /\ c.AuthToken = ""
    /\ c.ClientID # ""
    /\ c.ClientSecret = ""
    /\ loadErr = emptyCredentialsError

\* C7: a non-empty BaseURL and only a static Token: Load returns nil and
\* every client handle is assigned.
C7_TokenOnlyLoads ==
    (/\ LoadRan
     /\ c.BaseURL # ""
     /\ c.Token # ""
     /\ c.ClientID = ""
     /\ c.ClientSecret = ""
     /\ c.AuthToken = "")
        => /\ pc = "loaded"
           /\ loadErr = "nil"
           /\ EveryHandleAssigned

\* Some credential form is present.
SomeCredentials == c.Token # "" \/ PairComplete \/ c.AuthToken # ""

\* The clients of the vendors whose credentials are missing are constructed.
MissingVendorsConstructed ==
    /\ c.AuthToken = "" => (c.Metal # "nil" /\ c.Metalgo # "nil")
    /\ (c.Token = "" /\ ~PairComplete)
           => (c.Ecx # "nil" /\ c.Ne # "nil" /\ c.FabricClient # "nil")

\* C8 as stated (read with a BaseURL that is not empty and parses): whenever
\* some credential form is present, Load does not return the
\* empty-credentials error and the clients of the vendors whose credentials
\* are missing are constructed.
C8_AsStated ==
    (LoadRan /\ c.BaseURL # "" /\ ~urlParseFails(c.BaseURL) /\ SomeCredentials)
        => /\ loadErr # emptyCredentialsError
           /\ MissingVendorsConstructed

\* C8 amended: whenever some credential form is present, Load does not
\* return the empty-credentials error, and whenever Load returns nil every
\* client handle is constructed, those of the vendors whose credentials are
\* missing included; when the token exchange fails, Load returns that error
\* and assigns no handle.
C8_Amended ==
    (LoadRan /\ SomeCredentials)
        => /\ loadErr # emptyCredentialsError
           /\ loadErr = "nil" => EveryHandleAssigned
           /\ (exchanges = 1 /\ exchanged.err)
                  => (loadErr = "error when acquiring token" /\ NoHandleAssigned)

C8_Witness ==
    /\ pc = "loaded"
    /\ c.Token = ""
    /\ ~PairComplete
    /\ c.ClientID # ""
    /\ c.AuthToken # ""
    /\ loadErr = "nil"
    /\ c.Ecx # "nil"
    /\ c.FabricClient # "nil"

\* C9: with an empty BaseURL Load returns "'baseURL' cannot be empty"
\* whatever the credentials are, before validating them and before any token
\* exchange, and assigns no client handle.
C9_EmptyBaseURL ==
    (LoadRan /\ c.BaseURL = "")
        => /\ pc = "failed"
           /\ loadErr = baseURLError
           /\ exchanges = 0
           /\ NoHandleAssigned

C9_Witness ==
    /\ pc = "failed"
    /\ c.BaseURL = ""
    /\ c.Token = ""
    /\ c.AuthToken = ""
    /\ ~PairComplete
    /\ loadErr = baseURLError

\* What Load leaves in FabricAuthToken.
FabricAuthTokenOfLoad ==
    IF exchanges = 1 /\ exchanged.hasToken THEN exchanged.AccessToken ELSE c.Token

C10_State ==
    /\ exchanges <= 1
    /\ exchanges = 1 => (c.Token = "" /\ PairComplete)
    /\ pc = "loaded" => c.FabricAuthToken = FabricAuthTokenOfLoad

C10_Step ==
    /\ exchanges' # exchanges => pc = "constructed"
    /\ pc = "loaded" =>
           (c'.FabricAuthToken = c.FabricAuthToken /\ exchanges' = exchanges)

\* C10: the token exchange happens at most once, during Load, and only when
\* Token is empty and ClientID and ClientSecret are both set; Load fixes
\* FabricAuthToken (the exchanged access token, otherwise Token), and once
\* Load has returned no operation changes it or exchanges again.
C10_ExchangeOnce == [](C10_State) /\ [][C10_Step]_vars

C10_Witness ==
    /\ pc = "loaded"
    /\ exchanges = 1
    /\ c.FabricAuthToken = "access-token"
    /\ metalgoUA # c.metalGoUserAgent
    /\ metalUA # c.metalUserAgent

(***************************************************************************)
(* Claims about the user agent, checked under Spec.                        *)
(***************************************************************************)
\* The TF_APPEND_USER_AGENT layer: present only if the variable holds more
\* than spaces.
EnvLayer ==
    IF uaEnv \in {<<>>, <<"SP">>} THEN <<>> ELSE <<"SP", "extra">>

\* The layers of the metal-go base user agent: host framework, plugin SDK,
\* the optional environment layer, provider version, client suffix.
MetalGoBaseLayers ==
    <<"HashiCorp Terraform/">> \o Str(c.TerraformVersion)
        \o <<" (+https://www.terraform.io) Terraform Plugin SDK/", "sdk-version">>
        \o EnvLayer
        \o <<"SP", "terraform-provider-equinix/", "provider-version">>
        \o <<"SP", "metal-go/version">>

GoUserAgentSet == pc = "loaded" /\ goMeta # NoMeta

\* C11: the user agent AddFwModuleToMetalGoUserAgent puts on the metal-go
\* client is the base user agent computed at Load, with the module name
\* added only when the provider metadata yields a non-empty module name;
\* with an empty module name or unreadable metadata it is the base user
\* agent exactly.
C11_ModuleUserAgent ==
    GoUserAgentSet
        => /\ c.metalGoUserAgent = MetalGoBaseLayers
           /\ (~goMeta.err /\ goMeta.ModuleName # "")
                  => metalgoUA = <<goMeta.ModuleName, "SP">> \o c.metalGoUserAgent
           /\ (goMeta.err \/ goMeta.ModuleName = "")
                  => metalgoUA = c.metalGoUserAgent

C11_Witness ==
    /\ GoUserAgentSet
    /\ goMeta = [err |-> FALSE, ModuleName |-> "modA"]
    /\ uaEnv = <<"SP", "extra", "SP">>
    /\ Head(metalgoUA) = "modA"
    /\ metalgoUA[Len(metalgoUA)] = "metal-go/version"

(***************************************************************************)
(* Claims about waitUntilReservationProvisionable, checked under SpecPoll. *)
(***************************************************************************)
PollDone == pollPc = "done"

Polls == 1..Len(pollObs)

\* The fetch succeeded and reported the reservation not provisionable.
NotProvisionable(o) == ~o.err /\ ~o.provisionable

\* C12: if a status fetch reports the reservation provisionable before the
\* deadline, at the first poll or after not-provisionable ones, the poller
\* returns success, after at most one further check and without polling on.
C12_ProvisionableSucceeds ==
    \A i \in Polls :
        (~pollObs[i].err /\ pollObs[i].provisionable)
            => /\ PollDone
               /\ pollResult.kind = "success"
               /\ pollResult.err = "nil"
               /\ Len(pollObs) - i <= 1

C12_Witness ==
    /\ PollDone
    /\ Len(pollObs) = 2
    /\ pollObs[1] = [err |-> FALSE, provisionable |-> FALSE, device |-> "instanceId"]
    /\ pollObs[2] = [err |-> FALSE, provisionable |-> TRUE, device |-> ""]
    /\ pollResult.kind = "success"

\* Every poll so far reported the reservation not provisionable, with no
\* device attached.
OnlyDeprovisioning ==
    \A i \in Polls : NotProvisionable(pollObs[i]) /\ pollObs[i].device = "nil"

C13_State ==
    /\ Len(pollObs) <= MaxWait
    /\ (PollDone /\ pollCtx = "nil" /\ OnlyDeprovisioning)
           => /\ pollResult.kind = "timeout"
              /\ pollResult.err # "nil"
              /\ pollResult.id = reservationId
              /\ pollResult.last = "deprovisioning"
              /\ Len(pollObs) = MaxWait

\* C13: if every poll reports the reservation not provisionable, with no
\* device, until the maximum wait has elapsed, the poller ends with a timeout
\* error naming the reservation and the last observed status; it never
\* returns success and never polls forever.
C13_TimesOut == [](C13_State) /\ <>(PollDone)

C13_Witness ==
    /\ PollDone
    /\ pollCtx = "nil"
    /\ OnlyDeprovisioning
    /\ Len(pollObs) = MaxWait
    /\ pollResult = PollRet("timeout", "never reached target state",
                            reservationId, "deprovisioning")

\* Polls i and i+1 both report not provisionable, with different device ids.
IdChanged(i) ==
    /\ i + 1 \in Polls
    /\ NotProvisionable(pollObs[i])
    /\ NotProvisionable(pollObs[i + 1])
    /\ pollObs[i].device # pollObs[i + 1].device

\* Poll j did not end the wait: the poller went on polling after it, or was
\* stopped later by the deadline or by the caller.
KeptPolling(j) ==
    \/ j < Len(pollObs)
    \/ pollPc = "waiting"
    \/ pollResult.kind \in {"timeout", "cancelled"}

\* C14 as stated: when the instance id changes between two not-provisionable
\* polls the poller keeps polling; the change yields neither failure nor
\* success.
C14_AsStated ==
    \A i \in Polls : IdChanged(i) => KeptPolling(i + 1)

\* C14 amended: a change of the device id between two not-provisionable
\* polls is not an event of its own; the later poll is judged alone.  If its
\* device is absent, has an empty id or is the instance passed to the call,
\* the poller keeps polling (and ends with the timeout error at the deadline
\* if nothing else happens); if its device id is non-empty and differs from
\* the instance passed to the call, the poller returns success.
C14_Amended ==
    \A i \in Polls :
        IdChanged(i)
            => IF pollObs[i + 1].device \in {"nil", "", instanceId}
               THEN /\ KeptPolling(i + 1)
                    /\ (PollDone /\ pollCtx = "nil" /\ i + 1 = Len(pollObs))
                           => (pollResult.kind = "timeout" /\ Len(pollObs) = MaxWait)
               ELSE /\ PollDone
                    /\ pollResult.kind = "success"
                    /\ i + 1 = Len(pollObs)

C14_Witness ==
    /\ PollDone
    /\ pollCtx = "nil"
    /\ Len(pollObs) = MaxWait
    /\ IdChanged(MaxWait - 1)
    /\ pollObs[MaxWait - 1].device = "instanceId"
    /\ pollObs[MaxWait].device = ""
    /\ pollResult.kind = "timeout"

\* C15: a poll that reports the reservation not provisionable but attached
\* to a device whose id is non-empty and differs from the instance passed to
\* the call makes the call return without error.
C15_ReprovisionedSucceeds ==
    \A i \in Polls :
        (/\ NotProvisionable(pollObs[i])
         /\ pollObs[i].device # "nil"
         /\ pollObs[i].device # ""
         /\ pollObs[i].device # instanceId)
            => /\ PollDone
               /\ pollResult.kind = "success"
               /\ pollResult.err = "nil"

C15_Witness ==
    /\ PollDone
    /\ Len(pollObs) = 2
    /\ pollObs[1] = [err |-> FALSE, provisionable |-> FALSE, device |-> "instanceId"]
    /\ pollObs[2] = [err |-> FALSE, provisionable |-> FALSE,
                     device |-> "new instance id"]
    /\ pollResult.err = "nil"

\* C16: if the status fetch fails the poller returns a non-nil error: the
\* failure is not reported as success and is not taken for a
\* not-yet-provisionable observation (the poller does not poll on).
C16_FetchErrorFails ==
    \A i \in Polls :
        pollObs[i].err
            => /\ PollDone
               /\ pollResult.kind = "error"
               /\ pollResult.err # "nil"
               /\ i = Len(pollObs)

C16_Witness ==
    /\ PollDone
    /\ Len(pollObs) = 2
    /\ pollObs[2] = FetchError
    /\ pollResult.kind = "error"

\* A step of the poller taken with the context cancelled ends the poll with
\* the context's error, without fetching.
C17_Step ==
    (pollCtx # "nil" /\ pollPc = "waiting"
        /\ <<pollPc, pollObs, pollElapsed, pollResult>>'
               # <<pollPc, pollObs, pollElapsed, pollResult>>)
        => /\ pollPc' = "done"
           /\ pollResult'.kind = "cancelled"
           /\ pollResult'.err = pollCtx
           /\ pollObs' = pollObs

\* C17: cancelling the context while the poller waits aborts the poll at the
\* next tick at the latest, and the poller returns a cancellation error that
\* differs from the timeout error.
C17_CancelAborts ==
    /\ [][C17_Step]_vars
    /\ []((pollCtx # "nil" /\ pollPc = "waiting") => <>(PollDone))
    /\ [](pollResult.kind = "cancelled"
              => (pollCtx # "nil" /\ pollResult.err # "never reached target state"))

C17_Witness ==
    /\ PollDone
    /\ pollCtx = "context.Canceled"
    /\ pollElapsed = MaxWait
    /\ pollResult = PollRet("cancelled", "context.Canceled", "", "")

(***************************************************************************)
(* Claims about the SSH key resource handlers, checked under SpecRes.      *)
(***************************************************************************)
\* The handler issued its API call and the call came back as out describes.
Called(op) == resOp = op /\ Len(resCalls) = 1

Warnings(diags) == {i \in 1..Len(diags) : diags[i].severity = "warning"}

\* C18: when the API call of Read fails with a not-found error, Read removes
\* the resource from the state and adds a warning diagnostic and no error;
\* it returns without writing (setting) the state.
C18_ReadNotFound ==
    (Called("Read") /\ IsNotFound(resCalls[1].out))
        => /\ resState = "removed"
           /\ ~HasError(resDiags)
           /\ Len(resDiags) = 1
           /\ Warnings(resDiags) = {1}

C18_Witness ==
    /\ Called("Read")
    /\ resCalls[1].out = [err |-> TRUE, status |-> 404, cause |-> "http"]
    /\ resState = "removed"
    /\ resDiags = <<DiagFor("warning",
                         "Equinix Metal Project SSHKey not found during refresh",
                         keyId)>>

\* C19: every vendor API call of Create, Read, Update and Delete is issued
\* under the context the caller supplied, so that a call made while that
\* context is cancelled is cancelled with it.
C19_CallsUnderCallerContext ==
    \A i \in 1..Len(resCalls) :
        /\ resCalls[i].ctx # Background
        /\ resCtx # "nil" => resCalls[i].out = Aborted

\* The failures of the API call that the handler does not ignore.
NotIgnored(op, out) ==
    IF op = "Delete"
    THEN out.err /\ out.status \notin {HttpForbidden, HttpNotFound}
    ELSE out.err

\* C20: Create, Update and Delete each issue at most one vendor API call;
\* when that call fails with an error the handler does not ignore, the
\* handler adds an error diagnostic and returns without issuing the call
\* again and without writing the state.
C20_NoRetryByHandler ==
    resOp \in {"Create", "Update", "Delete"}
        => /\ Len(resCalls) <= 1
           /\ \A i \in 1..Len(resCalls) :
                 NotIgnored(resOp, resCalls[i].out)
                     => /\ HasError(resDiags)
                        /\ resState = "untouched"

C20_Witness ==
    /\ Called("Create")
    /\ resCalls[1].out = [err |-> TRUE, status |-> 500, cause |-> "http"]
    /\ resDiags = <<Diag("error", "Failed to create Project SSH Key")>>
    /\ resState = "untouched"

(***************************************************************************)
(* Claims about concurrent resource operations, checked under SpecConc.    *)
(***************************************************************************)
\* The values a word of the field can hold: those of the base user agent
\* stored at Load and of the strings the operations store.
StoredStrings == {c.metalGoUserAgent} \cup {OpUserAgent(o) : o \in Ops}

\* A step in which operation o sends its request.
Sends(o) == concPc[o] = "ready" /\ concPc'[o] = "sent"

C21_Step ==
    \A o \in Ops : Sends(o) => concReq'[o] = metalgoUA

C21_State ==
    /\ concWords.ptr \in StoredStrings
    /\ concWords.len \in {Len(str) : str \in StoredStrings}
    /\ metalgoUA = StringOf(concWords)
    /\ \A o \in Ops : concPc[o] = "sent" <=> concReq[o] # NoRequest

\* C21: the metal-go client's outgoing user agent is one field shared by
\* the operations of all modules and written without synchronisation: each
\* operation stores its module's user agent into it before its API call,
\* and its request carries whatever the field holds when the request is
\* sent, whichever operation stored it; so an operation's request can carry
\* the other module's user agent (the witness).
C21_SharedUserAgent == [](C21_State) /\ [][C21_Step]_vars

\* The swap: the request of module A's operation is out with module B's
\* user agent.
C21_Witness ==
    /\ concPc["op1"] = "sent"
    /\ concReq["op1"] = OpUserAgent("op2")
    /\ Head(concReq["op1"]) = "modB"
    /\ OpUserAgent("op1") # OpUserAgent("op2")

(***************************************************************************)
(* Claims about the Config after Load.                                     *)
(***************************************************************************)
\* Everything reachable from the Config but the clients' outgoing user
\* agents: the fields of the structure (base URL, credentials, timeout, the
\* base user-agent strings, the client handles) and Load's own results.
C22_Frame == <<c, pc, loadErr, exchanges, exchanged, uaEnv>>

\* C22: once Load has returned, no step of the program (no handler of the
\* resource and no user-agent helper) changes the base URL, the
\* credentials, the timeout, the stored base user-agent strings or the
\* client handles of the Config; only a client's outgoing user agent is
\* written.
C22_ImmutableAfterLoad ==
    [][pc = "loaded" => C22_Frame' = C22_Frame]_vars

C22_Witness ==
    /\ pc = "loaded"
    /\ metalUA # c.metalUserAgent
    /\ metalgoUA # c.metalGoUserAgent
    /\ c.BaseURL = "https://api.equinix.com"
    /\ c.Metal = "packngo.Client"
    /\ c.Metalgo = "metalv1.APIClient"

(***************************************************************************)
(* More claims about the SSH key resource handlers, under SpecRes.         *)
(***************************************************************************)
Errors(diags) == {i \in 1..Len(diags) : diags[i].severity = "error"}

\* C23: when the lookup of Read fails with an error other than not-found,
\* Read adds an error diagnostic for the key, does not remove the resource
\* and does not set the state: the response leaves the state as it was.
C23_ReadOtherError ==
    (Called("Read") /\ resCalls[1].out.err /\ ~IsNotFound(resCalls[1].out))
        => /\ resDiags[1] = DiagFor("error", "Failed to get Project SSHKey", keyId)
           /\ HasError(resDiags)
           /\ Warnings(resDiags) = {}
           /\ resState = "untouched"

C23_Witness ==
    /\ Called("Read")
    /\ resCalls[1].out = [err |-> TRUE, status |-> 500, cause |-> "http"]
    /\ Errors(resDiags) = {1}
    /\ resState = "untouched"

\* C26: Delete adds no error diagnostic when the delete call is answered
\* with HTTP 403 or 404; for any other failure of the delete call it adds
\* exactly one error diagnostic, which names the key ID.
C26_DeleteIgnoresGone ==
    Called("Delete")
        => LET out == resCalls[1].out
           IN  /\ (out.err /\ out.status \in {403, 404}) => resDiags = <<>>
               /\ (out.err /\ out.status \notin {403, 404})
                      => /\ Len(resDiags) = 1
                         /\ Errors(resDiags) = {1}
                         /\ resDiags[1].id = keyId
                         /\ keyId # ""

C26_Witness ==
    /\ Called("Delete")
    /\ resCalls[1].out = [err |-> TRUE, status |-> 403, cause |-> "http"]
    /\ resDiags = <<>>

(***************************************************************************)
(* Claims about sequences of AddFwModuleToMetalGoUserAgent calls (Spec).   *)
(***************************************************************************)
ModuleNames == {"modA", "modB"}

\* The module names that occur in a user agent, in order.
ModulesIn(ua) == SelectSeq(ua, LAMBDA t : t \in ModuleNames)

\* The module name a call with metadata meta asks for, as a sequence.
Wanted(meta) ==
    IF ~meta.err /\ meta.ModuleName # "" THEN <<meta.ModuleName>> ELSE <<>>

\* At least two calls were made.
CalledTwice == pc = "loaded" /\ goPrev # NoMeta

C24_State ==
    GoUserAgentSet
        => /\ ModulesIn(metalgoUA) = Wanted(goMeta)
           /\ Len(metalgoUA) = Len(c.metalGoUserAgent) + 2 * Len(Wanted(goMeta))
           /\ Wanted(goMeta) = <<>> => metalgoUA = c.metalGoUserAgent
           /\ (CalledTwice /\ goPrev = goMeta)
                  => metalgoUA = Wanted(goMeta)
                                    \o (IF Wanted(goMeta) = <<>> THEN <<>> ELSE <<"SP">>)
                                    \o c.metalGoUserAgent

\* C24: after any sequence of AddFwModuleToMetalGoUserAgent calls on a
\* loaded Config the metal-go client's user agent is determined by the
\* module name of the last call and the base user agent stored at Load:
\* module names of earlier calls do not accumulate in it, a second call with
\* the same metadata leaves the value of the first, a call without a module
\* name restores the base user agent, and no call changes the stored base.
C24_LastCallOnly ==
    /\ [](C24_State)
    /\ [][pc = "loaded" => c.metalGoUserAgent' = c.metalGoUserAgent]_vars

\* A call for module B after a call for module A.
C24_Witness ==
    /\ CalledTwice
    /\ goPrev = [err |-> FALSE, ModuleName |-> "modA"]
    /\ goMeta = [err |-> FALSE, ModuleName |-> "modB"]
    /\ ModulesIn(metalgoUA) = <<"modB">>

(***************************************************************************)
(* Claims about the fabric mapping functions, checked under SpecMap.       *)
(***************************************************************************)
MapReturned(fn) == mapPc = "returned" /\ mapFn = fn

NameChanged == mapArg.Name # mapArg.name

BandwidthChanged == mapArg.Bandwidth # mapArg.bandwidth

SecretsPending ==
    mapArg.Operation.ProviderStatus = "PENDING_APPROVAL" /\ mapArg.hasAWSSecrets

\* The batches the claim expects, in its order.
ExpectedChangeOps ==
    (IF NameChanged THEN <<<<ChangeOp("replace", "/name", mapArg.name)>>>> ELSE <<>>)
        \o (IF BandwidthChanged
            THEN <<<<ChangeOp("replace", "/bandwidth", mapArg.bandwidth)>>>>
            ELSE <<>>)
        \o (IF SecretsPending THEN <<<<ChangeOp("add", "", "additionalInfo")>>>> ELSE <<>>)

\* C25: getUpdateRequests returns the 'nothing to update' error exactly
\* when the name is unchanged, the bandwidth is unchanged and it is not the
\* case that the provider status is PENDING_APPROVAL with AWS secrets
\* present; otherwise it returns, without error, one single-operation batch
\* per applicable change, in the order name, bandwidth, additionalInfo.
C25_UpdateRequests ==
    MapReturned("getUpdateRequests")
        => /\ ~mapRet.panic
           /\ mapRet.err # "nil"
                  <=> (~NameChanged /\ ~BandwidthChanged /\ ~SecretsPending)
           /\ mapRet.err = "nil" => mapRet.changeOps = ExpectedChangeOps

\* C27: supportedBandwidthsToTerra returns nil for a nil input and
\* otherwise a list with exactly one entry per input bandwidth, entry i
\* being the value of input bandwidth i.
C27_OneEntryPerBandwidth ==
    MapReturned("supportedBandwidthsToTerra")
        => IF mapArg.isNil
           THEN mapRet = NilSlice
           ELSE /\ ~mapRet.isNil
                /\ Len(mapRet.elems) = Len(mapArg.elems)
                /\ \A i \in 1..Len(mapArg.elems) : mapRet.elems[i] = mapArg.elems[i]

====
